---- MODULE Spec2Model ----
(***************************************************************************)
(* Chat client (ChatApp + ChatView + AuthProvider) as a state machine.     *)
(*                                                                         *)
(* ChatApp holds activeChat, chats and messages; every handler that talks  *)
(* to the network is split at its await: the part before the await issues  *)
(* a request (a record in inflight), the GraphQL/webhook endpoint answers  *)
(* it (ServerOk / ServerFail), and the part after the await runs when the  *)
(* answer is delivered (Deliver...).  Answers are delivered in any order.  *)
(* A handler closes over the state of the render it was called in, so a    *)
(* request carries the activeChat it captured.  Every handler or           *)
(* continuation commits its render, and the activeChat effect of that      *)
(* render, before the next event is handled.                               *)
(***************************************************************************)
EXTENDS Integers, Sequences, FiniteSets, Bags, TLC

\* ---------------------------------------------------------------- bounds
\* handler calls the user may make (continuations may add fetches)
MaxReq == 2
\* failed requests per behaviour
MaxFail == 1
\* requests in flight when the user starts another one
MaxInFlight == 2

\* ------------------------------------------------------------- constants
\* activeChat === null
NoChat == 0
NoRenderError == ""
Me == "me"
Other == "other"
DefaultTitle == "New Chat"
Titles == {"T1"}
\* what prompt() can return: a title, the empty string, or null (cancel)
PromptResults == Titles \cup {""}
SP == " "
\* values the input box can hold
InputValues == {<< >>, <<SP>>, <<SP, "a", SP>>}
BotReply == <<"o", "k">>

VARIABLES
    mounted,        \* the mount effects have run
    activeChat,     \* useState<string | null>(null)
    chats,          \* useState<Chat[]>([])
    messages,       \* useState<Message[]>([])
    toast,          \* the argument of the latest toast() call
    toastTick,      \* flips at every toast() call
    inputValue,     \* ChatView: useState('')
    isLoading,      \* ChatView: useState(false)
    now,            \* Date.now()
    inflight,       \* bag of requests issued and not yet delivered to their handler
    nUser,          \* calls of a network handler made by the user
    nFail,          \* requests that failed
    failedSends,    \* message_id of every sendMessage call that failed
    srvChats,       \* the chats table, newest first (created_at desc)
    srvMsgs,        \* the messages table per chat, oldest first (created_at asc)
    srvNext,        \* next id / created_at the backend hands out
    lastGetMessages, \* per chat, the most recent GET_MESSAGES response delivered
    returned,       \* chat ids the GET_CHATS and CREATE_CHAT responses have brought
    renderError,    \* the message of the Error a render of ChatApp threw, or ""
    dismissed,      \* handleDeleteChat has returned before its try block
    refused,        \* ChatView: handleSubmit has returned at its guard
    user,           \* AuthProvider: useState<User | null>(null)
    accessToken,    \* AuthProvider: useState<string | null>(null)
    loading,        \* AuthProvider: useState(true)
    subscribed,     \* the onAuthStateChanged listener is registered
    authCall,       \* the signIn / signUp / signOut call awaiting Nhost
    authResult,     \* how the latest signIn / signUp / signOut call settled
    activeChat1,    \* first version of ChatApp: useState<string | null>(null)
    chats1,         \* first version: useState<Chat[]>([])
    messages1,      \* first version: useState<Message[]>([])
    inflight1       \* first version: requests issued and not yet delivered

chatVars == <<mounted, activeChat, chats, messages, toast, toastTick, inputValue,
              isLoading, now, inflight, nUser, nFail, failedSends,
              srvChats, srvMsgs, srvNext, lastGetMessages,
              returned, renderError, dismissed, refused>>

authVars == <<user, accessToken, loading, subscribed, authCall, authResult>>

\* the first version of ChatApp, run next to the second one
v1Vars == <<activeChat1, chats1, messages1, inflight1>>

vars == <<chatVars, authVars, v1Vars>>

\* --------------------------------------------------------- array helpers
Ids(s) == {s[i].id : i \in 1..Len(s)}

Range(q) == {q[i] : i \in 1..Len(q)}

\* String.prototype.trim on a sequence of characters
RECURSIVE TrimLeft(_)
TrimLeft(s) == IF s # << >> /\ Head(s) = SP THEN TrimLeft(Tail(s)) ELSE s

RECURSIVE TrimRight(_)
TrimRight(s) ==
    IF s # << >> /\ s[Len(s)] = SP THEN TrimRight(SubSeq(s, 1, Len(s) - 1)) ELSE s

\* a trim that keeps the trailing whitespace
TrimLeftOnly(s) == TrimLeft(s)

Trim(s) == TrimRight(TrimLeft(s))

\* ------------------------------------------------------------ ChatApp maps
\* a map that does not keep the server's id
MapChatOtherId(chat) ==
    [id |-> chat.id + 1,
     title |-> chat.title,
     lastMessage |-> IF Len(chat.messages) > 0 THEN <<chat.messages[1].content>> ELSE << >>,
     updatedAt |-> chat.created_at]

MapChat(chat) ==
    [id |-> chat.id,
     title |-> chat.title,
     lastMessage |-> IF Len(chat.messages) > 0 THEN <<chat.messages[1].content>> ELSE << >>,
     updatedAt |-> chat.created_at]

MapMessage(msg) ==
    [id |-> msg.id,
     content |-> msg.content,
     role |-> IF msg.role = "assistant" THEN "bot" ELSE msg.role,
     timestamp |-> msg.created_at,
     isBot |-> msg.role = "assistant"]

\* the rows mapped, newest first
FetchedMessagesNewestFirst(rows) ==
    [i \in 1..Len(rows) |-> MapMessage(rows[Len(rows) + 1 - i])]

FetchedMessages(rows) == [i \in 1..Len(rows) |-> MapMessage(rows[i])]

FetchedChats(rows) == [i \in 1..Len(rows) |-> MapChat(rows[i])]

NewChatOf(row) ==
    [id |-> row.id, title |-> row.title, lastMessage |-> << >>, updatedAt |-> row.created_at]

UserMessage(content, t) ==
    [id |-> <<"temp", t>>,
     content |-> content,
     role |-> "user",
     timestamp |-> <<"iso", t>>,
     isBot |-> FALSE]

\* [userMessage, ...prev]
OptimisticPrepend(prev, userMessage) == <<userMessage>> \o prev

OptimisticAppend(prev, userMessage) == Append(prev, userMessage)

\* [...prev, newChat]
AppendChat(prev, newChat) == Append(prev, newChat)

PrependChat(prev, newChat) == <<newChat>> \o prev

RemoveChat(prev, chatId) == SelectSeq(prev, LAMBDA chat : chat.id # chatId)

\* a map that gives every chat the new title
RetitleAll(prev, chatId, newTitle) ==
    [i \in 1..Len(prev) |-> [prev[i] EXCEPT !.title = newTitle]]

RetitleChat(prev, chatId, newTitle) ==
    [i \in 1..Len(prev) |->
        IF prev[i].id = chatId THEN [prev[i] EXCEPT !.title = newTitle] ELSE prev[i]]

\* updatedChats[0]?.id || null
FirstIdOrNull(updatedChats) ==
    IF Len(updatedChats) > 0 THEN updatedChats[1].id ELSE NoChat

\* ----------------------------------------------------------------- toast, toastTick
Toast(title, variant) == [title |-> title, variant |-> variant]

FailTitle(kind) ==
    CASE kind = "GET_CHATS" -> "Failed to fetch chats"
      [] kind = "GET_MESSAGES" -> "Failed to fetch messages"
      [] kind = "CREATE_CHAT" -> "Failed to create chat"
      [] kind = "DELETE_CHAT" -> "Failed to delete chat"
      [] kind = "RENAME_CHAT" -> "Failed to rename chat"
      [] kind = "sendMessage" -> "Failed to send message"

CatchToast(kind) == Toast(FailTitle(kind), "destructive")

NoToast == Toast("", "")

\* toast(t)
Raise(t) == toast' = t /\ toastTick' = ~toastTick

One(r) == SetToBag({r})

\* --------------------------------------------------------------- requests
Snapshot == [chats |-> chats, messages |-> messages, activeChat |-> activeChat]

Request(kind, chatId, title, content, captured, before) ==
    [kind |-> kind, chatId |-> chatId, title |-> title,
     userId |-> IF kind \in {"GET_CHATS", "CREATE_CHAT", "sendMessage"} THEN user.id ELSE "",
     content |-> content, message_id |-> now, captured |-> captured,
     status |-> "sent", resp |-> << >>, before |-> before]

\* useEffect(() => { if (activeChat) fetchMessages(activeChat); }, [activeChat])
\* an effect without its dependency array
EffectFiresOnEveryRender(old, new) == new # NoChat

EffectFires(old, new) == new # old /\ new # NoChat

ActiveChatEffect(old, new, before) ==
    IF EffectFires(old, new)
    THEN SetToBag({Request("GET_MESSAGES", new, "", << >>, new, before)})
    ELSE EmptyBag

\* ------------------------------------------------------------------ backend
Thread(chatId) == IF chatId \in DOMAIN srvMsgs THEN srvMsgs[chatId] ELSE << >>

\* messages(limit: 1, order_by: { created_at: desc }) { content }
LastMessageOf(chatId) ==
    LET t == Thread(chatId)
    IN  IF Len(t) > 0 THEN <<[content |-> t[Len(t)].content]>> ELSE << >>

\* chats(where: { user_id: { _eq: $userId } }, order_by: { created_at: desc })
GetChatsRows(userId) ==
    LET own == SelectSeq(srvChats, LAMBDA c : c.user_id = userId)
    IN  [i \in 1..Len(own) |->
            [id |-> own[i].id, title |-> own[i].title,
             created_at |-> own[i].created_at,
             messages |-> LastMessageOf(own[i].id)]]

\* messages(where: { chat_id: { _eq: $chatId } }, order_by: { created_at: asc })
GetMessagesRows(chatId) == Thread(chatId)

SrvChat(n, userId, title) ==
    [id |-> n, title |-> title, created_at |-> <<"at", n>>, user_id |-> userId]

SrvMsg(n, role, content) ==
    [id |-> <<"msg", n>>, content |-> content, role |-> role, created_at |-> <<"at", n>>]

OwnedBy(userId, chatId) ==
    \E i \in 1..Len(srvChats) : srvChats[i].id = chatId /\ srvChats[i].user_id = userId

\* ------------------------------------------------------------ AuthProvider
NoUser == [id |-> "", email |-> "", displayName |-> ""]
NoToken == "null"
NoSession == [user |-> NoUser, accessToken |-> ""]
\* displayName: undefined
Undefined == "undefined"

\* users as Nhost reports them; the second one has no display name
NhostUsers == <<[id |-> Me, email |-> "me@x", displayName |-> "Ann"],
                [id |-> Other, email |-> "other@x", displayName |-> ""]>>

\* sessions Nhost can hand out: a user (or none) and an access token (or none)
Sessions ==
    {[user |-> u, accessToken |-> t] :
        u \in Range(NhostUsers) \cup {NoUser}, t \in {"tok1", ""}}

\* error messages of Nhost, as the phrases they are made of; none is empty
SignInErrors == {<<"Error:", "user not found">>, <<"Invalid credentials">>,
                 <<"Email not verified">>, <<"Network Error">>}
SignUpErrors == {<<"Email", "already exists">>, <<"Network Error">>}
NoError == << >>
AuthErrors(op) ==
    CASE op = "signIn" -> SignInErrors
      [] op = "signUp" -> SignUpErrors
      [] OTHER -> {<<"Network Error">>}

\* String.prototype.includes on a message made of phrases
Includes(message, phrase) == \E i \in 1..Len(message) : message[i] = phrase

\* x || undefined, x || null
OrElse(x, fallback) == IF x = "" THEN fallback ELSE x

LocalUser(u) ==
    [id |-> u.id, email |-> u.email, displayName |-> OrElse(u.displayName, Undefined)]

SignedUpUser(u, displayName) ==
    [id |-> u.id, email |-> u.email, displayName |-> displayName]

\* a call: its operation, its displayName argument, and Nhost's { session, error }
\* once Nhost has answered
NoCall == [op |-> "none", displayName |-> "", answered |-> FALSE,
           session |-> NoSession, error |-> NoError]
NoResult == [op |-> "none", outcome |-> "none", error |-> NoError]
Resolved(op, error) == [op |-> op, outcome |-> "resolved", error |-> error]
Threw(op, error) == [op |-> op, outcome |-> "threw", error |-> error]

\* the error branch of signIn forgetting its return
SignInErrorDropped(message) == NoError

\* the error branch of signIn: the text of { error: ... }
SignInError(message) ==
    IF Includes(message, "user not found") \/ Includes(message, "Invalid credentials")
    THEN <<"No account found with this email, please sign up.">>
    ELSE message

SignUpError(message) ==
    IF Includes(message, "already exists")
    THEN <<"Email already exists, please sign in.">>
    ELSE message

\* initAuth, run once by the mount effect.  currentUser / token: what
\* nhost.auth.getUser() and getAccessToken() return; threw: getUser throws
InitAuth(currentUser, token, threw) ==
    /\ loading
    /\ IF threw
       THEN UNCHANGED <<user, accessToken, subscribed>>
       ELSE /\ IF currentUser # NoUser
               THEN /\ user' = LocalUser(currentUser)
                    /\ accessToken' = token
               ELSE UNCHANGED <<user, accessToken>>
            /\ subscribed' = TRUE
    /\ loading' = FALSE
    /\ UNCHANGED <<authCall, authResult>>
    /\ UNCHANGED <<chatVars, v1Vars>>

\* the listener given to nhost.auth.onAuthStateChanged
AuthStateChanged(session) ==
    /\ subscribed
    /\ IF session.user # NoUser
       THEN /\ user' = LocalUser(session.user)
            /\ accessToken' = OrElse(session.accessToken, NoToken)
       ELSE /\ user' = NoUser
            /\ accessToken' = NoToken
    /\ user' # user \/ accessToken' # accessToken
    /\ UNCHANGED <<loading, subscribed, authCall, authResult>>
    /\ UNCHANGED <<chatVars, v1Vars>>

\* signIn / signUp / signOut up to their await
CallAuth(op, displayName) ==
    /\ authCall = NoCall
    /\ authCall' = [NoCall EXCEPT !.op = op, !.displayName = displayName]
    /\ UNCHANGED <<user, accessToken, loading, subscribed, authResult>>
    /\ UNCHANGED <<chatVars, v1Vars>>

\* nhost.auth.signIn / signUp / signOut settles: an error, or a session (which
\* may be null)
NhostAnswers(session, error) ==
    /\ authCall # NoCall
    /\ ~authCall.answered
    /\ error # NoError => session = NoSession
    /\ authCall' = [authCall EXCEPT !.answered = TRUE, !.session = session, !.error = error]
    /\ UNCHANGED <<user, accessToken, loading, subscribed, authResult>>
    /\ UNCHANGED <<chatVars, v1Vars>>

\* signIn after the await
ResolveSignIn ==
    /\ authCall.op = "signIn"
    /\ authCall.answered
    /\ LET session == authCall.session
           error == authCall.error
       IN
       IF error # NoError
       THEN /\ authResult' = Resolved("signIn", SignInError(error))
            /\ UNCHANGED <<user, accessToken>>
       ELSE /\ IF session.user # NoUser
               THEN /\ user' = LocalUser(session.user)
                    /\ accessToken' = OrElse(session.accessToken, NoToken)
               ELSE UNCHANGED <<user, accessToken>>
            /\ authResult' = Resolved("signIn", NoError)
    /\ authCall' = NoCall
    /\ UNCHANGED <<loading, subscribed>>
    /\ UNCHANGED <<chatVars, v1Vars>>

ResolveSignUp ==
    /\ authCall.op = "signUp"
    /\ authCall.answered
    /\ LET session == authCall.session
           error == authCall.error
       IN
       IF error # NoError
       THEN /\ authResult' = Resolved("signUp", SignUpError(error))
            /\ UNCHANGED <<user, accessToken>>
       ELSE /\ IF session.user # NoUser
               THEN /\ user' = SignedUpUser(session.user, authCall.displayName)
                    /\ accessToken' = OrElse(session.accessToken, NoToken)
               ELSE UNCHANGED <<user, accessToken>>
            /\ authResult' = Resolved("signUp", NoError)
    /\ authCall' = NoCall
    /\ UNCHANGED <<loading, subscribed>>
    /\ UNCHANGED <<chatVars, v1Vars>>

\* signOut after the await: if (error) throw error
ResolveSignOut ==
    /\ authCall.op = "signOut"
    /\ authCall.answered
    /\ LET error == authCall.error
       IN
       IF error # NoError
       THEN /\ authResult' = Threw("signOut", error)
            /\ UNCHANGED <<user, accessToken>>
       ELSE /\ user' = NoUser
            /\ accessToken' = NoToken
            /\ authResult' = Resolved("signOut", NoError)
    /\ authCall' = NoCall
    /\ UNCHANGED <<loading, subscribed>>
    /\ UNCHANGED <<chatVars, v1Vars>>

\* --------------------------------------------------------------------- Init
InitChat ==
    /\ mounted = FALSE
    /\ activeChat = NoChat
    /\ chats = << >>
    /\ messages = << >>
    /\ toast = NoToast
    /\ toastTick = FALSE
    /\ inputValue = << >>
    /\ isLoading = FALSE
    /\ now = 1
    /\ inflight = EmptyBag
    /\ nUser = 0
    /\ nFail = 0
    /\ failedSends = {}
    /\ lastGetMessages = << >>
    /\ returned = {}
    /\ renderError = NoRenderError
    /\ dismissed = FALSE
    /\ refused = FALSE
    /\ \E full \in BOOLEAN :
        IF full
        THEN /\ srvChats = <<SrvChat(5, Me, DefaultTitle), SrvChat(2, Other, "T1"),
                             SrvChat(1, Me, "T1")>>
             /\ srvMsgs = (1 :> <<SrvMsg(3, "user", <<"a">>), SrvMsg(4, "assistant", BotReply)>>)
                          @@ (2 :> << >>) @@ (5 :> << >>)
             /\ srvNext = 6
        ELSE /\ srvChats = <<SrvChat(1, Other, "T1")>>
             /\ srvMsgs = (1 :> << >>)
             /\ srvNext = 2

\* the first version of ChatApp after construction
InitChat1 ==
    /\ activeChat1 = NoChat
    /\ chats1 = << >>
    /\ messages1 = << >>
    /\ inflight1 = EmptyBag

\* ------------------------------------------------- ChatApp: user actions
CanStart == nUser < MaxReq /\ BagCardinality(inflight) < MaxInFlight

clientRest == <<mounted, inputValue, isLoading, now, nFail, failedSends, srvChats, srvMsgs, srvNext>>

\* a render that accepts any user
SignedInUnchecked == TRUE

\* const userId = user?.id; if (!userId) throw ...: the render goes on
SignedIn == user.id # ""

\* the first render throws Error('User must be signed in'): nothing is
\* mounted and no effect runs
RenderThrows ==
    /\ ~mounted
    /\ renderError = NoRenderError
    /\ ~SignedIn
    /\ renderError' = "User must be signed in"
    /\ UNCHANGED <<mounted, activeChat, chats, messages, toast, toastTick, inputValue,
                   isLoading, now, inflight, nUser, nFail, failedSends, srvChats, srvMsgs,
                   srvNext, lastGetMessages, returned, dismissed, refused>>
    /\ UNCHANGED authVars

\* useEffect(() => { fetchChats(); }, []) and the first run of the activeChat
\* effect (activeChat is null: no fetch)
Mount ==
    /\ ~mounted
    /\ renderError = NoRenderError
    /\ SignedIn
    /\ mounted' = TRUE
    /\ inflight' = inflight (+)
            One(Request("GET_CHATS", NoChat, "", << >>, activeChat, Snapshot))
            (+) ActiveChatEffect(activeChat, activeChat, Snapshot)
    /\ UNCHANGED <<activeChat, chats, messages, toast, toastTick, inputValue, isLoading, now,
                   nUser, nFail, failedSends, srvChats, srvMsgs, srvNext, lastGetMessages>>
    /\ UNCHANGED <<returned, renderError, dismissed, refused>>
    /\ UNCHANGED authVars

\* onChatSelect(chat.id) from a row of the sidebar
HandleChatSelect(chatId) ==
    /\ mounted
    /\ chatId \in Ids(chats)
    /\ CanStart
    /\ LET effect == ActiveChatEffect(activeChat, chatId,
                        [chats |-> chats, messages |-> messages, activeChat |-> chatId])
       IN  /\ activeChat' = chatId
           /\ inflight' = inflight (+) effect
           /\ nUser' = nUser + BagCardinality(effect)
    /\ UNCHANGED <<chats, messages, toast, toastTick, lastGetMessages>>
    /\ UNCHANGED clientRest
    /\ UNCHANGED <<returned, renderError, dismissed, refused>>
    /\ UNCHANGED authVars

HandleNewChat ==
    /\ mounted
    /\ CanStart
    /\ inflight' = inflight (+)
            One(Request("CREATE_CHAT", NoChat, DefaultTitle, << >>, activeChat, Snapshot))
    /\ nUser' = nUser + 1
    /\ UNCHANGED <<activeChat, chats, messages, toast, toastTick, lastGetMessages>>
    /\ UNCHANGED clientRest
    /\ UNCHANGED <<returned, renderError, dismissed, refused>>
    /\ UNCHANGED authVars

\* a handler that does not wait for confirm()
HandleDeleteChatUnconfirmed(chatId, confirmed) ==
    /\ mounted
    /\ CanStart
    /\ IF chatId \in Ids(chats)
       THEN /\ inflight' = inflight (+)
                    One(Request("DELETE_CHAT", chatId, "", << >>, activeChat, Snapshot))
            /\ nUser' = nUser + 1
            /\ UNCHANGED dismissed
       ELSE /\ dismissed' = TRUE
            /\ nUser' = nUser + 1
            /\ UNCHANGED inflight
    /\ UNCHANGED <<activeChat, chats, messages, toast, toastTick, lastGetMessages>>
    /\ UNCHANGED clientRest
    /\ UNCHANGED <<returned, renderError, refused>>
    /\ UNCHANGED authVars

\* confirmed: what confirm() returns
HandleDeleteChat(chatId, confirmed) ==
    /\ mounted
    /\ CanStart
    /\ IF chatId \in Ids(chats) /\ confirmed
       THEN /\ inflight' = inflight (+)
                    One(Request("DELETE_CHAT", chatId, "", << >>, activeChat, Snapshot))
            /\ nUser' = nUser + 1
            /\ UNCHANGED dismissed
       ELSE /\ dismissed' = TRUE
            /\ nUser' = nUser + 1
            /\ UNCHANGED inflight
    /\ UNCHANGED <<activeChat, chats, messages, toast, toastTick, lastGetMessages>>
    /\ UNCHANGED clientRest
    /\ UNCHANGED <<returned, renderError, refused>>
    /\ UNCHANGED authVars

HandleRenameChat(chatId, newTitle) ==
    /\ inflight' = inflight (+)
            One(Request("RENAME_CHAT", chatId, newTitle, << >>, activeChat, Snapshot))
    /\ nUser' = nUser + 1

\* ChatSidebar: newTitle is what prompt() returns ("" also stands for null)
HandleRenameClick(chatId, newTitle) ==
    /\ mounted
    /\ chatId \in Ids(chats)
    /\ CanStart
    /\ IF newTitle # ""
       THEN HandleRenameChat(chatId, newTitle)
       ELSE UNCHANGED <<inflight, nUser>>
    /\ UNCHANGED <<activeChat, chats, messages, toast, toastTick, lastGetMessages>>
    /\ UNCHANGED clientRest
    /\ UNCHANGED <<returned, renderError, dismissed, refused>>
    /\ UNCHANGED authVars

\* ------------------------------------------------------------------ ChatView
\* onChange={e => setInputValue(e.target.value)}; typing is followed only as
\* long as the user may still call a handler (inputValue is read by
\* handleSubmit alone)
SetInputValue(v) ==
    /\ mounted
    /\ nUser < MaxReq
    /\ v # inputValue
    /\ inputValue' = v
    /\ UNCHANGED <<mounted, activeChat, chats, messages, toast, toastTick, isLoading, now,
                   inflight, nUser, nFail, failedSends, srvChats, srvMsgs, srvNext,
                   lastGetMessages>>
    /\ UNCHANGED <<returned, renderError, dismissed, refused>>
    /\ UNCHANGED authVars

\* the guard without its isLoading test
SubmitAcceptedWhileLoading == Trim(inputValue) # << >> /\ activeChat # NoChat

SubmitAccepted == Trim(inputValue) # << >> /\ ~isLoading /\ activeChat # NoChat

\* ChatApp.handleSendMessage up to its await; the promise stays pending
HandleSendMessage(content) ==
    IF activeChat = NoChat
    THEN /\ isLoading' = FALSE
         /\ UNCHANGED <<messages, inflight, now>>
    ELSE /\ messages' = OptimisticAppend(messages, UserMessage(content, now))
         /\ inflight' = inflight (+)
                One(Request("sendMessage", activeChat, "", content, activeChat, Snapshot))
         /\ now' = now + 1
         /\ isLoading' = TRUE

HandleSubmit ==
    /\ mounted
    /\ CanStart
    /\ IF SubmitAccepted
       THEN /\ inputValue' = << >>
            /\ HandleSendMessage(Trim(inputValue))
            /\ nUser' = nUser + 1
            /\ UNCHANGED refused
       ELSE /\ refused' = TRUE
            /\ nUser' = nUser + 1
            /\ UNCHANGED <<inputValue, isLoading, messages, inflight, now>>
    /\ UNCHANGED <<mounted, activeChat, chats, toast, toastTick, nFail, failedSends, srvChats, srvMsgs,
                   srvNext, lastGetMessages>>
    /\ UNCHANGED <<returned, renderError, dismissed>>
    /\ UNCHANGED authVars

\* ------------------------------------------------------- backend answers
Answer(r, resp) ==
    inflight' = (inflight (-) One(r)) (+) One([r EXCEPT !.status = "ok", !.resp = resp])

ServerOk(r) ==
    /\ BagIn(r, inflight)
    /\ r.status = "sent"
    /\ CASE r.kind = "GET_CHATS" ->
                /\ Answer(r, GetChatsRows(r.userId))
                /\ UNCHANGED <<srvChats, srvMsgs, srvNext>>
         [] r.kind = "GET_MESSAGES" ->
                /\ Answer(r, GetMessagesRows(r.chatId))
                /\ UNCHANGED <<srvChats, srvMsgs, srvNext>>
         [] r.kind = "CREATE_CHAT" ->
                LET row == SrvChat(srvNext, r.userId, r.title)
                IN  /\ srvChats' = <<row>> \o srvChats
                    /\ srvMsgs' = (srvNext :> << >>) @@ srvMsgs
                    /\ srvNext' = srvNext + 1
                    /\ Answer(r, <<[id |-> row.id, title |-> row.title,
                                    created_at |-> row.created_at]>>)
         [] r.kind = "DELETE_CHAT" ->
                /\ srvChats' = SelectSeq(srvChats, LAMBDA c : c.id # r.chatId)
                /\ srvMsgs' = [c \in DOMAIN srvMsgs \ {r.chatId} |-> srvMsgs[c]]
                /\ UNCHANGED srvNext
                /\ Answer(r, << >>)
         [] r.kind = "RENAME_CHAT" ->
                /\ srvChats' = [i \in 1..Len(srvChats) |->
                                    IF srvChats[i].id = r.chatId
                                    THEN [srvChats[i] EXCEPT !.title = r.title]
                                    ELSE srvChats[i]]
                /\ UNCHANGED <<srvMsgs, srvNext>>
                /\ Answer(r, << >>)
         [] r.kind = "sendMessage" ->
                \* the workflow checks that the chat belongs to the user, stores
                \* the message and the model's reply
                /\ OwnedBy(r.userId, r.chatId)
                /\ srvMsgs' = [srvMsgs EXCEPT ![r.chatId] =
                                    @ \o <<SrvMsg(srvNext, "user", r.content),
                                           SrvMsg(srvNext + 1, "assistant", BotReply)>>]
                /\ srvNext' = srvNext + 2
                /\ UNCHANGED srvChats
                /\ Answer(r, << >>)
    /\ UNCHANGED <<mounted, activeChat, chats, messages, toast, toastTick, inputValue, isLoading,
                   now, nUser, nFail, failedSends, lastGetMessages>>
    /\ UNCHANGED <<returned, renderError, dismissed, refused>>
    /\ UNCHANGED authVars

\* ------------------------------------------- ChatApp: after the await
\* a catch that also empties the thread
CatchResetting(r) ==
    /\ Raise(CatchToast(r.kind))
    /\ inflight' = inflight (-) One(r)
    /\ messages' = << >>
    /\ UNCHANGED <<activeChat, chats, lastGetMessages>>

\* a catch that takes the optimistic message back
CatchRollback(r) ==
    /\ Raise(CatchToast(r.kind))
    /\ inflight' = inflight (-) One(r)
    /\ messages' = IF r.kind = "sendMessage"
                   THEN SelectSeq(messages, LAMBDA m : m.id # <<"temp", r.message_id>>)
                   ELSE messages
    /\ UNCHANGED <<activeChat, chats, lastGetMessages>>

\* catch { toast({ title: 'Failed to ...', variant: 'destructive' }) }
Catch(r) ==
    /\ Raise(CatchToast(r.kind))
    /\ inflight' = inflight (-) One(r)
    /\ UNCHANGED <<activeChat, chats, messages, lastGetMessages>>

\* a catch that sends the request again
FailRetry(r) ==
    /\ BagIn(r, inflight)
    /\ r.status = "sent"
    /\ nFail < MaxFail \/ (r.kind = "sendMessage" /\ ~OwnedBy(r.userId, r.chatId))
    /\ Raise(CatchToast(r.kind))
    /\ nFail' = nFail + 1
    /\ UNCHANGED <<activeChat, chats, messages, lastGetMessages, inflight, failedSends,
                   isLoading, mounted, inputValue, now, nUser, srvChats, srvMsgs, srvNext>>
    /\ UNCHANGED <<returned, renderError, dismissed, refused>>
    /\ UNCHANGED authVars

\* client.request rejects; for sendMessage: fetch rejects or !response.ok,
\* rethrown as Error('Failed to call n8n webhook').  The handler's catch runs;
\* for handleSendMessage the promise then resolves and ChatView's finally
\* runs setIsLoading(false)
Fail(r) ==
    /\ BagIn(r, inflight)
    /\ r.status = "sent"
    /\ nFail < MaxFail \/ (r.kind = "sendMessage" /\ ~OwnedBy(r.userId, r.chatId))
    /\ Catch(r)
    /\ isLoading' = IF r.kind = "sendMessage" THEN FALSE ELSE isLoading
    /\ nFail' = nFail + 1
    /\ failedSends' = IF r.kind = "sendMessage"
                      THEN failedSends \cup {r.message_id} ELSE failedSends
    /\ UNCHANGED <<mounted, inputValue, now, nUser, srvChats, srvMsgs, srvNext>>
    /\ UNCHANGED <<returned, renderError, dismissed, refused>>
    /\ UNCHANGED authVars

Answered(r, kind) == BagIn(r, inflight) /\ r.kind = kind /\ r.status = "ok"

DeliverFetchChats(r) ==
    /\ Answered(r, "GET_CHATS")
    /\ LET fetchedChats == FetchedChats(r.resp)
           newActive == IF Len(fetchedChats) > 0 /\ r.captured = NoChat
                        THEN fetchedChats[1].id ELSE activeChat
           effect == ActiveChatEffect(activeChat, newActive,
                        [chats |-> fetchedChats, messages |-> messages,
                         activeChat |-> newActive])
       IN  /\ chats' = fetchedChats
           /\ activeChat' = newActive
           /\ inflight' = (inflight (-) One(r)) (+) effect
           /\ UNCHANGED <<messages, toast, toastTick, lastGetMessages>>
    /\ returned' = returned \cup {r.resp[i].id : i \in 1..Len(r.resp)}
    /\ UNCHANGED nUser
    /\ UNCHANGED clientRest
    /\ UNCHANGED <<renderError, dismissed, refused>>
    /\ UNCHANGED authVars

DeliverFetchMessages(r) ==
    /\ Answered(r, "GET_MESSAGES")
    /\ messages' = FetchedMessages(r.resp)
    /\ lastGetMessages' = (r.chatId :> <<r.resp>>) @@ lastGetMessages
    /\ inflight' = inflight (-) One(r)
    /\ UNCHANGED <<activeChat, chats, toast, toastTick>>
    /\ UNCHANGED nUser
    /\ UNCHANGED clientRest
    /\ UNCHANGED <<returned, renderError, dismissed, refused>>
    /\ UNCHANGED authVars

DeliverNewChat(r) ==
    /\ Answered(r, "CREATE_CHAT")
    /\ LET newChat == NewChatOf(r.resp[1])
           updated == PrependChat(chats, newChat)
           effect == ActiveChatEffect(activeChat, newChat.id,
                        [chats |-> updated, messages |-> << >>,
                         activeChat |-> newChat.id])
       IN  /\ chats' = updated
           /\ activeChat' = newChat.id
           /\ messages' = << >>
           /\ Raise(Toast("New chat created", "default"))
           /\ inflight' = (inflight (-) One(r)) (+) effect
           /\ UNCHANGED lastGetMessages
    /\ returned' = returned \cup {r.resp[1].id}
    /\ UNCHANGED nUser
    /\ UNCHANGED clientRest
    /\ UNCHANGED <<renderError, dismissed, refused>>
    /\ UNCHANGED authVars

\* r.captured is the activeChat of the render handleDeleteChat was called in
DeliverDeleteChat(r) ==
    /\ Answered(r, "DELETE_CHAT")
    /\ LET updatedChats == RemoveChat(chats, r.chatId)
           newActive == IF r.captured = r.chatId
                        THEN FirstIdOrNull(updatedChats) ELSE activeChat
           effect == ActiveChatEffect(activeChat, newActive,
                        [chats |-> updatedChats, messages |-> messages,
                         activeChat |-> newActive])
       IN  /\ chats' = updatedChats
           /\ activeChat' = newActive
           /\ Raise(Toast("Chat deleted", "default"))
           /\ inflight' = (inflight (-) One(r)) (+) effect
           /\ UNCHANGED <<messages, lastGetMessages>>
    /\ UNCHANGED nUser
    /\ UNCHANGED clientRest
    /\ UNCHANGED <<returned, renderError, dismissed, refused>>
    /\ UNCHANGED authVars

DeliverRenameChat(r) ==
    /\ Answered(r, "RENAME_CHAT")
    /\ chats' = RetitleChat(chats, r.chatId, r.title)
    /\ Raise(Toast("Chat renamed successfully", "default"))
    /\ inflight' = inflight (-) One(r)
    /\ UNCHANGED <<activeChat, messages, lastGetMessages>>
    /\ UNCHANGED nUser
    /\ UNCHANGED clientRest
    /\ UNCHANGED <<returned, renderError, dismissed, refused>>
    /\ UNCHANGED authVars

\* a handleSubmit without its finally block
DeliverSendMessageNoFinally(r) ==
    /\ Answered(r, "sendMessage")
    /\ inflight' = (inflight (-) One(r)) (+)
            One(Request("GET_MESSAGES", r.captured, "", << >>, r.captured, Snapshot))
    /\ UNCHANGED isLoading
    /\ UNCHANGED <<activeChat, chats, messages, toast, toastTick, lastGetMessages>>
    /\ UNCHANGED <<mounted, inputValue, now, nUser, nFail, failedSends, srvChats, srvMsgs, srvNext>>
    /\ UNCHANGED <<returned, renderError, dismissed, refused>>
    /\ UNCHANGED authVars

\* handleSendMessage after await sendMessage(...): fetchMessages(activeChat)
\* with the activeChat it closed over; its promise then resolves and
\* ChatView's finally runs setIsLoading(false)
DeliverSendMessage(r) ==
    /\ Answered(r, "sendMessage")
    /\ inflight' = (inflight (-) One(r)) (+)
            One(Request("GET_MESSAGES", r.captured, "", << >>, r.captured, Snapshot))
    /\ isLoading' = FALSE
    /\ UNCHANGED <<activeChat, chats, messages, toast, toastTick, lastGetMessages>>
    /\ UNCHANGED <<mounted, inputValue, now, nUser, nFail, failedSends, srvChats, srvMsgs, srvNext>>
    /\ UNCHANGED <<returned, renderError, dismissed, refused>>
    /\ UNCHANGED authVars

\* ---------------------------------------------------------------------- Next
\* ChatApp rendered for a signed-in user
InitSignedIn ==
    /\ user = LocalUser(NhostUsers[1])
    /\ accessToken = "tok1"
    /\ loading = FALSE
    /\ subscribed = TRUE
    /\ authCall = NoCall
    /\ authResult = NoResult

\* useAuth().user is null, or a user without an id
InitNoUser ==
    /\ user \in {NoUser, [id |-> "", email |-> "me@x", displayName |-> Undefined]}
    /\ accessToken = NoToken
    /\ loading = FALSE
    /\ subscribed = TRUE
    /\ authCall = NoCall
    /\ authResult = NoResult

Init == InitChat /\ InitChat1 /\ (InitSignedIn \/ InitNoUser)

Next ==
    \/ RenderThrows /\ UNCHANGED v1Vars
    \/ Mount /\ UNCHANGED v1Vars
    \/ \E chatId \in Ids(chats) : HandleChatSelect(chatId) /\ UNCHANGED v1Vars
    \/ HandleNewChat /\ UNCHANGED v1Vars
    \/ \E chatId \in 1..(srvNext - 1), confirmed \in BOOLEAN :
          HandleDeleteChat(chatId, confirmed) /\ UNCHANGED v1Vars
    \/ \E chatId \in Ids(chats), newTitle \in PromptResults :
          HandleRenameClick(chatId, newTitle) /\ UNCHANGED v1Vars
    \/ \E v \in InputValues : SetInputValue(v) /\ UNCHANGED v1Vars
    \/ HandleSubmit /\ UNCHANGED v1Vars
    \/ \E r \in BagToSet(inflight) : ServerOk(r) /\ UNCHANGED v1Vars
    \/ \E r \in BagToSet(inflight) : Fail(r) /\ UNCHANGED v1Vars
    \/ \E r \in BagToSet(inflight) : DeliverFetchChats(r) /\ UNCHANGED v1Vars
    \/ \E r \in BagToSet(inflight) : DeliverFetchMessages(r) /\ UNCHANGED v1Vars
    \/ \E r \in BagToSet(inflight) : DeliverNewChat(r) /\ UNCHANGED v1Vars
    \/ \E r \in BagToSet(inflight) : DeliverDeleteChat(r) /\ UNCHANGED v1Vars
    \/ \E r \in BagToSet(inflight) : DeliverRenameChat(r) /\ UNCHANGED v1Vars
    \/ \E r \in BagToSet(inflight) : DeliverSendMessage(r) /\ UNCHANGED v1Vars

Spec == Init /\ [][Next]_vars

\* ------------------------------------- ChatApp, first version (lines 88-186)
Snapshot1 == [chats |-> chats1, messages |-> messages1, activeChat |-> activeChat1]

MapChat1(chat) ==
    [id |-> chat.id,
     title |-> chat.title,
     lastMessage |-> IF Len(chat.messages) > 0 THEN <<chat.messages[1].content>> ELSE << >>,
     updatedAt |-> chat.created_at]

\* a map that keeps the server's role
MapMessage1KeepingRole(msg) ==
    [id |-> msg.id,
     content |-> msg.content,
     role |-> msg.role,
     timestamp |-> msg.created_at,
     isBot |-> msg.role = "assistant"]

MapMessage1(msg) ==
    [id |-> msg.id,
     content |-> msg.content,
     role |-> IF msg.role = "assistant" THEN "bot" ELSE msg.role,
     timestamp |-> msg.created_at,
     isBot |-> msg.role = "assistant"]

NewChatOf1(row) ==
    [id |-> row.id, title |-> row.title, lastMessage |-> << >>, updatedAt |-> row.created_at]

UserMessage1(content, t) ==
    [id |-> <<"temp", t>>,
     content |-> content,
     role |-> "user",
     timestamp |-> <<"iso", t>>,
     isBot |-> FALSE]

\* useEffect(() => { if (activeChat) fetchMessages(activeChat); }, [activeChat])
ActiveChatEffect1(old, new, before) ==
    IF new # old /\ new # NoChat
    THEN SetToBag({Request("GET_MESSAGES", new, "", << >>, new, before)})
    ELSE EmptyBag

Mount1 ==
    inflight1' = inflight1 (+)
         One(Request("GET_CHATS", NoChat, "", << >>, activeChat1, Snapshot1))
         (+) ActiveChatEffect1(activeChat1, activeChat1, Snapshot1)

HandleChatSelect1(chatId) ==
    /\ activeChat1' = chatId
    /\ inflight1' = inflight1 (+)
            ActiveChatEffect1(activeChat1, chatId,
                [chats |-> chats1, messages |-> messages1, activeChat |-> chatId])
    /\ UNCHANGED <<chats1, messages1>>

HandleNewChat1 ==
    /\ inflight1' = inflight1 (+)
            One(Request("CREATE_CHAT", NoChat, "New Chat", << >>, activeChat1, Snapshot1))
    /\ UNCHANGED <<activeChat1, chats1, messages1>>

\* handleSendMessage up to its await
HandleSendMessage1(content) ==
    IF activeChat1 = NoChat
    THEN UNCHANGED v1Vars
    ELSE /\ messages1' = Append(messages1, UserMessage1(content, now))
         /\ inflight1' = inflight1 (+)
                One(Request("sendMessage", activeChat1, "", content, activeChat1, Snapshot1))
         /\ UNCHANGED <<activeChat1, chats1>>

\* the endpoint answers the first version's request as it answers the second's
Answer1(r, resp) ==
    inflight1' =
        IF BagIn(r, inflight1)
        THEN (inflight1 (-) One(r)) (+) One([r EXCEPT !.status = "ok", !.resp = resp])
        ELSE inflight1

\* the catch blocks: a toast and nothing else
Catch1(r) ==
    /\ inflight1' = inflight1 (-) One(r)
    /\ UNCHANGED <<activeChat1, chats1, messages1>>

DeliverFetchChats1(r) ==
    IF ~BagIn(r, inflight1) THEN UNCHANGED v1Vars
    ELSE
    LET fetchedChats == [i \in 1..Len(r.resp) |-> MapChat1(r.resp[i])]
        newActive == IF Len(fetchedChats) > 0 /\ r.captured = NoChat
                     THEN fetchedChats[1].id ELSE activeChat1
    IN  /\ chats1' = fetchedChats
        /\ activeChat1' = newActive
        /\ inflight1' = (inflight1 (-) One(r)) (+)
                ActiveChatEffect1(activeChat1, newActive,
                    [chats |-> fetchedChats, messages |-> messages1,
                     activeChat |-> newActive])
        /\ UNCHANGED messages1

DeliverFetchMessages1(r) ==
    IF ~BagIn(r, inflight1) THEN UNCHANGED v1Vars
    ELSE
    /\ messages1' = [i \in 1..Len(r.resp) |-> MapMessage1(r.resp[i])]
    /\ inflight1' = inflight1 (-) One(r)
    /\ UNCHANGED <<activeChat1, chats1>>

DeliverNewChat1(r) ==
    IF ~BagIn(r, inflight1) THEN UNCHANGED v1Vars
    ELSE
    LET newChat == NewChatOf1(r.resp[1])
        updated == <<newChat>> \o chats1
    IN  /\ chats1' = updated
        /\ activeChat1' = newChat.id
        /\ messages1' = << >>
        /\ inflight1' = (inflight1 (-) One(r)) (+)
                ActiveChatEffect1(activeChat1, newChat.id,
                    [chats |-> updated, messages |-> << >>, activeChat |-> newChat.id])

\* after await sendMessage(...): fetchMessages(activeChat)
DeliverSendMessage1(r) ==
    IF ~BagIn(r, inflight1) THEN UNCHANGED v1Vars
    ELSE
    /\ inflight1' = (inflight1 (-) One(r)) (+)
            One(Request("GET_MESSAGES", r.captured, "", << >>, r.captured, Snapshot1))
    /\ UNCHANGED <<activeChat1, chats1, messages1>>

\* both versions given the same events, the same answers and the same failures
NextVersions ==
    \/ RenderThrows /\ UNCHANGED v1Vars
    \/ Mount /\ Mount1 /\ UNCHANGED <<activeChat1, chats1, messages1>>
    \/ \E chatId \in Ids(chats) : HandleChatSelect(chatId) /\ HandleChatSelect1(chatId)
    \/ HandleNewChat /\ HandleNewChat1
    \/ \E v \in InputValues : SetInputValue(v) /\ UNCHANGED v1Vars
    \/ /\ HandleSubmit
       /\ IF SubmitAccepted THEN HandleSendMessage1(Trim(inputValue)) ELSE UNCHANGED v1Vars
    \/ \E r \in BagToSet(inflight) :
          /\ ServerOk(r)
          /\ \E a \in BagToSet(inflight') :
                /\ a = [r EXCEPT !.status = "ok", !.resp = a.resp]
                /\ CopiesIn(a, inflight') > CopiesIn(a, inflight)
                /\ Answer1(r, a.resp)
          /\ UNCHANGED <<activeChat1, chats1, messages1>>
    \/ \E r \in BagToSet(inflight) :
          Fail(r) /\ (IF BagIn(r, inflight1) THEN Catch1(r) ELSE UNCHANGED v1Vars)
    \/ \E r \in BagToSet(inflight) : DeliverFetchChats(r) /\ DeliverFetchChats1(r)
    \/ \E r \in BagToSet(inflight) : DeliverFetchMessages(r) /\ DeliverFetchMessages1(r)
    \/ \E r \in BagToSet(inflight) : DeliverNewChat(r) /\ DeliverNewChat1(r)
    \/ \E r \in BagToSet(inflight) : DeliverSendMessage(r) /\ DeliverSendMessage1(r)

SpecVersions == Init /\ [][NextVersions]_vars

\* AuthProvider on its own, before ChatApp is rendered
InitAuthProvider ==
    /\ user = NoUser
    /\ accessToken = NoToken
    /\ loading = TRUE
    /\ subscribed = FALSE
    /\ authCall = NoCall
    /\ authResult = NoResult

InitAuthSpec == InitChat /\ InitChat1 /\ InitAuthProvider

NextAuth ==
    \/ \E currentUser \in Range(NhostUsers) \cup {NoUser}, token \in {"tok1", NoToken},
          threw \in BOOLEAN : InitAuth(currentUser, token, threw)
    \/ \E session \in Sessions : AuthStateChanged(session)
    \/ \E op \in {"signIn", "signOut"} : CallAuth(op, "")
    \/ \E displayName \in {"", "Bob"} : CallAuth("signUp", displayName)
    \/ \E session \in Sessions \cup {NoSession}, error \in AuthErrors(authCall.op) \cup {NoError} :
          NhostAnswers(session, error)
    \/ ResolveSignIn
    \/ ResolveSignUp
    \/ ResolveSignOut

SpecAuth == InitAuthSpec /\ [][NextAuth]_vars

\* ------------------------------------------------------- step observers
Quiescent == BagToSet(inflight) = {}

\* requests of status st that this step put in flight
Added(st) ==
    LET d == inflight' (-) inflight
    IN  {r \in BagToSet(d) : r.status = st}

NAdded(st) ==
    LET d == inflight' (-) inflight
        S == {r \in BagToSet(d) : r.status = st}
    IN  BagCardinality([r \in S |-> d[r]])

Issued(kind) == {r \in Added("sent") : r.kind = kind}

\* this step delivers the answer to r to the handler that awaits it
DeliveredNow(r) == r.status = "ok" /\ CopiesIn(r, inflight') < CopiesIn(r, inflight)

\* this step is the failure of the network call of r
FailedNow(r) ==
    /\ r.status = "sent"
    /\ CopiesIn(r, inflight') < CopiesIn(r, inflight)
    /\ nFail' = nFail + 1

IsTemp(m) == m.id[1] = "temp"

OwnPairs == {<<srvChats[i].id, srvChats[i].title>> :
                i \in {j \in 1..Len(srvChats) : srvChats[j].user_id = user.id}}

LocalPairs == {<<chats[i].id, chats[i].title>> : i \in 1..Len(chats)}

\* C1: once every request has completed, all of them successfully, the local
\* messages list is the most recent GET_MESSAGES response for the active chat.
C1_MessagesOfActiveChat ==
    (mounted /\ Quiescent /\ nFail = 0 /\ activeChat # NoChat) =>
        /\ activeChat \in DOMAIN lastGetMessages
        /\ messages = FetchedMessages(lastGetMessages[activeChat][1])

\* C5: once every request has completed, all of them successfully, the local
\* chats list holds exactly the user's chats on the server, ids and titles.
C5_ChatsMatchServer ==
    (mounted /\ Quiescent /\ nFail = 0) => LocalPairs = OwnPairs

NKind(B, kind) ==
    LET S == {r \in BagToSet(B) : r.kind = kind}
    IN  BagCardinality([r \in S |-> B[r]])

NIssued(kind) ==
    LET d == inflight' (-) inflight
        S == {r \in BagToSet(d) : r.status = "sent" /\ r.kind = kind}
    IN  BagCardinality([r \in S |-> d[r]])

\* C2 as claimed: when a network call fails, a destructive toast is raised and
\* chats, messages and activeChat have the values they had before the handler
\* that made the call was invoked.
C2_StateAsBeforeHandler ==
    [][\A r \in BagToSet(inflight) :
          FailedNow(r) =>
              /\ toast' = CatchToast(r.kind)
              /\ toastTick' # toastTick
              /\ chats' = r.before.chats
              /\ messages' = r.before.messages
              /\ activeChat' = r.before.activeChat]_vars

\* C2 as amended: when a network call fails, a destructive toast is raised and
\* the failure handling changes none of chats, messages and activeChat.
C2_FailureLeavesStateAsIs ==
    [][\A r \in BagToSet(inflight) :
          FailedNow(r) =>
              /\ toast' = CatchToast(r.kind)
              /\ toast'.variant = "destructive"
              /\ toastTick' # toastTick
              /\ chats' = chats
              /\ messages' = messages
              /\ activeChat' = activeChat]_vars

C2_Witness ==
    /\ toast = CatchToast("DELETE_CHAT")
    /\ nFail > 0
    /\ Quiescent
    /\ chats # << >>

FailedTemp(m) == IsTemp(m) /\ m.id[2] \in failedSends

\* C3 as claimed: a failed webhook call leaves the optimistic message in the
\* list, and the message of a failed send leaves the list only in a step that
\* delivers a successful GET_MESSAGES response.
C3_RemovedOnlyByFetch ==
    [][/\ \A r \in BagToSet(inflight) :
              (FailedNow(r) /\ r.kind = "sendMessage") => messages' = messages
       /\ \A m \in Range(messages) :
              (FailedTemp(m) /\ m \notin Range(messages')) =>
                  \E r \in BagToSet(inflight) : r.kind = "GET_MESSAGES" /\ DeliveredNow(r)]_vars

\* C3 as amended: a failed webhook call leaves the optimistic message in the
\* list, and the message of a failed send leaves the list only in a step that
\* delivers a successful GET_MESSAGES response or a successful CREATE_CHAT
\* response (handleNewChat empties the list).
C3_RemovedOnlyByFetchOrNewChat ==
    [][/\ \A r \in BagToSet(inflight) :
              (FailedNow(r) /\ r.kind = "sendMessage") => messages' = messages
       /\ \A m \in Range(messages) :
              (FailedTemp(m) /\ m \notin Range(messages')) =>
                  \E r \in BagToSet(inflight) :
                      /\ r.kind \in {"GET_MESSAGES", "CREATE_CHAT"}
                      /\ DeliveredNow(r)]_vars

C3_Witness ==
    /\ Quiescent
    /\ \E m \in Range(messages) : FailedTemp(m)

\* C4: a step that issues the webhook request has an active chat and appends
\* exactly one message (role user, isBot false, the given content) at the end
\* of messages, the earlier messages unchanged and in the same order.
C4_OptimisticAppend ==
    [][\A r \in Issued("sendMessage") :
          /\ activeChat # NoChat
          /\ Len(messages') = Len(messages) + 1
          /\ SubSeq(messages', 1, Len(messages)) = messages
          /\ messages'[Len(messages')].role = "user"
          /\ messages'[Len(messages')].isBot = FALSE
          /\ messages'[Len(messages')].content = r.content]_vars

C4_Witness ==
    /\ \E r \in BagToSet(inflight) : r.kind = "sendMessage" /\ r.status = "sent"
    /\ Len(messages) >= 3
    /\ IsTemp(messages[Len(messages)])
    /\ ~IsTemp(messages[1])

\* C6: right after a successful fetchMessages the local list has the length of
\* the response and its i-th element has the id, content and created_at of the
\* i-th returned row.
C6_ServerOrder ==
    [][\A r \in BagToSet(inflight) :
          (r.kind = "GET_MESSAGES" /\ DeliveredNow(r)) =>
              /\ Len(messages') = Len(r.resp)
              /\ \A i \in 1..Len(r.resp) :
                    /\ messages'[i].id = r.resp[i].id
                    /\ messages'[i].content = r.resp[i].content
                    /\ messages'[i].timestamp = r.resp[i].created_at]_vars

C6_Witness ==
    /\ Len(messages) >= 4
    /\ \A m \in Range(messages) : ~IsTemp(m)
    /\ activeChat \in DOMAIN lastGetMessages
    /\ messages = FetchedMessages(lastGetMessages[activeChat][1])

\* C7: GET_CHATS is issued in the mount step and in no other, and mounting
\* happens once; every step that changes activeChat to a chat issues
\* GET_MESSAGES for it; a step that makes activeChat null issues no
\* GET_MESSAGES; a step that leaves activeChat as it is issues GET_MESSAGES
\* only as the follow-up of a successful send, never for a selection.
C7_FetchOnMountAndSelectionChange ==
    [][/\ (NIssued("GET_CHATS") = 1) <=> (~mounted /\ mounted')
       /\ NIssued("GET_CHATS") <= 1
       /\ mounted => mounted'
       /\ (activeChat' # activeChat /\ activeChat' # NoChat) =>
              /\ NIssued("GET_MESSAGES") = 1
              /\ \A r \in Issued("GET_MESSAGES") : r.chatId = activeChat'
       /\ (activeChat' # activeChat /\ activeChat' = NoChat) =>
              NIssued("GET_MESSAGES") = 0
       /\ activeChat' = activeChat =>
              \A r \in Issued("GET_MESSAGES") :
                  \E s \in BagToSet(inflight) :
                      s.kind = "sendMessage" /\ DeliveredNow(s) /\ s.chatId = r.chatId]_vars

C7_Witness ==
    /\ toast = Toast("Chat deleted", "default")
    /\ activeChat # NoChat
    /\ \E r \in BagToSet(inflight) :
          r.kind = "GET_MESSAGES" /\ r.status = "sent" /\ r.chatId = activeChat

\* C8: a step issues at most one request; the step in which a request fails
\* issues none and leaves one request fewer in flight; a request is issued
\* only by a user action, the mount, a change of activeChat, or the
\* fetchMessages that follows a successful send.
C8_NoRetry ==
    [][/\ NAdded("sent") <= 1
       /\ (nFail' = nFail + 1) =>
              /\ NAdded("sent") = 0
              /\ BagCardinality(inflight') = BagCardinality(inflight) - 1
       /\ (NAdded("sent") = 1) =>
              \/ nUser' = nUser + 1
              \/ ~mounted /\ mounted'
              \/ activeChat' # activeChat
              \/ \E s \in BagToSet(inflight) : s.kind = "sendMessage" /\ DeliveredNow(s)]_vars

C8_Witness ==
    /\ toast = CatchToast("CREATE_CHAT")
    /\ nFail > 0
    /\ Quiescent

\* C9: at most one sendMessage call is in flight; a webhook request is issued
\* exactly in the steps that turn isLoading from false to true, one per step,
\* and never in a step taken while isLoading is true.
C9_NoQueueing ==
    [][/\ NKind(inflight', "sendMessage") <= 1
       /\ NIssued("sendMessage") <= 1
       /\ (NIssued("sendMessage") = 1) <=> (~isLoading /\ isLoading')
       /\ isLoading => NIssued("sendMessage") = 0]_vars

C9_Witness ==
    /\ isLoading
    /\ Trim(inputValue) # << >>
    /\ activeChat # NoChat
    /\ NKind(inflight, "sendMessage") = 1

SignInOrUpSettles ==
    authCall.op \in {"signIn", "signUp"} /\ authCall.answered /\ authCall' = NoCall

\* C10: a signIn or signUp for which Nhost returned an error resolves (it does
\* not throw) to an object whose error text is not empty, and changes neither
\* user nor accessToken; signIn and signUp never throw; user turns from null
\* to a user only in initAuth reading getUser, in the onAuthStateChanged
\* listener given a session with a user, or when signIn / signUp got a session
\* with a user and no error.
C10_AuthDelegated ==
    [][/\ (SignInOrUpSettles /\ authCall.error # NoError) =>
              /\ authResult' = Resolved(authCall.op, authResult'.error)
              /\ authResult'.error # NoError
              /\ user' = user
              /\ accessToken' = accessToken
       /\ SignInOrUpSettles => authResult'.outcome = "resolved"
       /\ (user = NoUser /\ user' # NoUser) =>
              \/ /\ loading /\ ~loading'
                 /\ \E u \in Range(NhostUsers) : user' = LocalUser(u)
              \/ /\ subscribed
                 /\ UNCHANGED <<loading, authCall, authResult>>
                 /\ \E session \in Sessions :
                       session.user # NoUser /\ user' = LocalUser(session.user)
              \/ /\ SignInOrUpSettles
                 /\ authCall.error = NoError
                 /\ authCall.session.user # NoUser
                 /\ user'.id = authCall.session.user.id]_vars

C10_Witness ==
    /\ authResult = Resolved("signIn", <<"No account found with this email, please sign up.">>)
    /\ authCall = NoCall
    /\ user # NoUser
    /\ accessToken # NoToken

\* C11: run side by side on the same mount, select-chat, new-chat and
\* send-message events with the same answers and failures, the two versions of
\* ChatApp have the same requests in flight and equal chats, messages and
\* activeChat after every step.
C11_VersionsAgree ==
    /\ inflight1 = inflight
    /\ chats1 = chats
    /\ messages1 = messages
    /\ activeChat1 = activeChat

C11_Witness ==
    /\ Quiescent
    /\ Len(chats1) >= 2
    /\ activeChat1 # NoChat
    /\ activeChat1 # chats1[1].id
    /\ Len(messages1) >= 4
    /\ messages1[4].role = "bot"

\* C12: activeChat is null or the id of a chat in the local chats list.
C12_ActiveChatListed == activeChat = NoChat \/ activeChat \in Ids(chats)

\* C13: the step that completes a successful handleDeleteChat(X) leaves X
\* out of chats and activeChat different from X; if X was active when the
\* deletion completes, activeChat becomes the first remaining chat or null;
\* if another chat was active, activeChat is unchanged.
C13_DeleteMovesSelection ==
    [][\A r \in BagToSet(inflight) :
          (r.kind = "DELETE_CHAT" /\ DeliveredNow(r)) =>
              /\ r.chatId \notin Ids(chats')
              /\ activeChat' # r.chatId
              /\ activeChat = r.chatId => activeChat' = FirstIdOrNull(chats')
              /\ activeChat # r.chatId => activeChat' = activeChat]_vars

\* C14: a GET_CHATS response processed while a chat is active does not change
\* activeChat; processed while none is active it selects the first fetched
\* chat, if there is one.
C14_AutoSelectOnlyWhenNoneActive ==
    [][\A r \in BagToSet(inflight) :
          (r.kind = "GET_CHATS" /\ DeliveredNow(r)) =>
              /\ activeChat # NoChat => activeChat' = activeChat
              /\ (activeChat = NoChat /\ Len(r.resp) > 0) => activeChat' = r.resp[1].id]_vars

\* C15: while the webhook call of a send is in flight, the optimistic message
\* of that send is an element of the local messages list.
C15_OptimisticMessageKept ==
    \A r \in BagToSet(inflight) :
        r.kind = "sendMessage" =>
            \E i \in 1..Len(messages) :
                messages[i].id = <<"temp", r.message_id>> /\ messages[i].content = r.content

NamesChat(r) == r.kind \in {"GET_MESSAGES", "sendMessage", "DELETE_CHAT", "RENAME_CHAT"}

\* C16: every request that names a chat carries a chat id that a GET_CHATS or
\* CREATE_CHAT response has brought before the request is issued; GET_CHATS and
\* CREATE_CHAT are issued with the id of the signed-in user; and no chat id so
\* brought belongs to another user on the server.
C16_ChatIdsFromServer ==
    [][/\ \A r \in Added("sent") :
              /\ NamesChat(r) => r.chatId \in returned'
              /\ r.kind \in {"GET_CHATS", "CREATE_CHAT", "sendMessage"} =>
                    r.userId = user.id /\ r.userId # ""
       /\ \A i \in 1..Len(srvChats') :
              srvChats'[i].id \in returned' => srvChats'[i].user_id = user.id]_vars

C16_Witness ==
    /\ \E r \in BagToSet(inflight) : r.kind = "DELETE_CHAT" /\ r.chatId = 6
    /\ \E r \in BagToSet(inflight) : r.kind = "GET_MESSAGES" /\ r.chatId = 6
    /\ \E i \in 1..Len(srvChats) : srvChats[i].user_id = Other
    /\ returned = {1, 5, 6}

\* C17: a render of ChatApp without a user id throws 'User must be signed in',
\* mounts nothing and issues nothing; every request is issued by a component
\* rendered with a user id, and carries that id where the operation has a
\* userId variable.
C17_SignedInRequired ==
    [][/\ user.id = "" =>
              /\ renderError' = "User must be signed in"
              /\ ~mounted'
              /\ inflight' = EmptyBag
       /\ renderError' # renderError => user.id = ""
       /\ \A r \in Added("sent") :
              /\ user.id # ""
              /\ renderError = NoRenderError
              /\ r.kind \in {"GET_CHATS", "CREATE_CHAT", "sendMessage"} => r.userId = user.id]_vars

C17_Witness ==
    /\ user = NoUser
    /\ renderError = "User must be signed in"
    /\ ~mounted
    /\ inflight = EmptyBag

\* C18: the step that completes a successful handleNewChat puts the chat the
\* server returned first in chats, followed by the chats listed before in
\* their order, makes it the active chat and empties messages.
C18_NewChatFirst ==
    [][\A r \in BagToSet(inflight) :
          (r.kind = "CREATE_CHAT" /\ DeliveredNow(r)) =>
              /\ Len(chats') = Len(chats) + 1
              /\ chats'[1].id = r.resp[1].id
              /\ chats'[1].title = r.resp[1].title
              /\ chats'[1].updatedAt = r.resp[1].created_at
              /\ \A i \in 1..Len(chats) : chats'[i + 1] = chats[i]
              /\ activeChat' = r.resp[1].id
              /\ messages' = << >>]_vars

C18_Witness ==
    /\ toast = Toast("New chat created", "default")
    /\ Len(chats) >= 3
    /\ chats[1].id = 6
    /\ chats[2].id = 5
    /\ activeChat = 6
    /\ messages = << >>

\* C19: the step that completes a successful handleRenameChat(X, t) keeps the
\* length and order of chats, sets the title of X to t, keeps the other
\* fields of X and every other chat, and keeps activeChat and messages.
C19_RenameChangesTitleOnly ==
    [][\A r \in BagToSet(inflight) :
          (r.kind = "RENAME_CHAT" /\ DeliveredNow(r)) =>
              /\ Len(chats') = Len(chats)
              /\ \A i \in 1..Len(chats) :
                    /\ chats'[i].id = chats[i].id
                    /\ chats'[i].lastMessage = chats[i].lastMessage
                    /\ chats'[i].updatedAt = chats[i].updatedAt
                    /\ chats[i].id = r.chatId => chats'[i].title = r.title
                    /\ chats[i].id # r.chatId => chats'[i] = chats[i]
              /\ activeChat' = activeChat
              /\ messages' = messages]_vars

C19_Witness ==
    /\ toast = Toast("Chat renamed successfully", "default")
    /\ Len(chats) = 2
    /\ chats[1].id = 5 /\ chats[1].title = "T1"
    /\ chats[2].id = 1 /\ chats[2].lastMessage # << >>

\* C20: a call of handleDeleteChat with an id that is not listed, or with the
\* confirmation declined, issues no request, shows no toast and leaves chats,
\* activeChat, messages and the server as they are; DELETE_CHAT is issued only
\* for a listed chat, by a call that was confirmed.
C20_DeleteOnlyConfirmed ==
    [][/\ \A chatId \in 1..(srvNext - 1), confirmed \in BOOLEAN :
              (HandleDeleteChat(chatId, confirmed) /\ (chatId \notin Ids(chats) \/ ~confirmed)) =>
                  /\ inflight' = inflight
                  /\ toast' = toast /\ toastTick' = toastTick
                  /\ chats' = chats /\ activeChat' = activeChat /\ messages' = messages
                  /\ srvChats' = srvChats /\ srvMsgs' = srvMsgs
       /\ dismissed' # dismissed =>
              /\ inflight' = inflight
              /\ toast' = toast /\ toastTick' = toastTick
              /\ chats' = chats /\ activeChat' = activeChat /\ messages' = messages
       /\ \A r \in Issued("DELETE_CHAT") : r.chatId \in Ids(chats) /\ dismissed' = dismissed]_vars

C20_Witness ==
    /\ dismissed
    /\ Len(chats) >= 2
    /\ Quiescent
    /\ toast = NoToast
    /\ Len(srvChats) = 3

\* content is value without its leading and trailing whitespace
IsTrimOf(content, value) ==
    /\ content # << >>
    /\ content[1] # SP
    /\ content[Len(content)] # SP
    /\ \E a \in 0..Len(value) :
          /\ a + Len(content) <= Len(value)
          /\ SubSeq(value, a + 1, a + Len(content)) = content
          /\ \A k \in 1..Len(value) :
                (k <= a \/ k > a + Len(content)) => value[k] = SP

\* C21: onSendMessage is called (the webhook request of handleSendMessage is
\* issued) only when the input holds a character that is not whitespace,
\* isLoading is false and chatId is not null, and its content is the input
\* without leading and trailing whitespace; a submit that fails one of the
\* three conditions calls nothing and leaves inputValue and isLoading as they
\* are.
C21_SubmitGuardsAndTrim ==
    [][/\ \A r \in Issued("sendMessage") :
              /\ \E k \in 1..Len(inputValue) : inputValue[k] # SP
              /\ ~isLoading
              /\ activeChat # NoChat
              /\ r.chatId = activeChat
              /\ IsTrimOf(r.content, inputValue)
       /\ (HandleSubmit /\ ((\A k \in 1..Len(inputValue) : inputValue[k] = SP)
                               \/ isLoading \/ activeChat = NoChat)) =>
              /\ inputValue' = inputValue
              /\ isLoading' = isLoading
              /\ inflight' = inflight
              /\ messages' = messages
       /\ refused' # refused =>
              /\ inputValue' = inputValue
              /\ isLoading' = isLoading
              /\ inflight' = inflight]_vars

C21_Witness ==
    /\ refused
    /\ \E r \in BagToSet(inflight) : r.kind = "sendMessage" /\ r.content = <<"a">>
    /\ isLoading
    /\ inputValue = << >>

\* the network call of a send settles: the webhook answers or the call fails
SendSettles ==
    \E r \in BagToSet(inflight) :
        /\ r.kind = "sendMessage"
        /\ (ServerOk(r) \/ Fail(r))
        /\ UNCHANGED v1Vars

\* the continuation of handleSendMessage runs once the webhook has answered
SendContinues ==
    \E r \in BagToSet(inflight) : DeliverSendMessage(r) /\ UNCHANGED v1Vars

\* ChatView with the handlers of ChatApp that bear on a send: the selection,
\* the deletion (the webhook rejects a chat that is gone) and the fetches
NextLive ==
    \/ RenderThrows /\ UNCHANGED v1Vars
    \/ Mount /\ UNCHANGED v1Vars
    \/ \E chatId \in Ids(chats) : HandleChatSelect(chatId) /\ UNCHANGED v1Vars
    \/ \E chatId \in 1..(srvNext - 1), confirmed \in BOOLEAN :
          HandleDeleteChat(chatId, confirmed) /\ UNCHANGED v1Vars
    \/ \E v \in InputValues : SetInputValue(v) /\ UNCHANGED v1Vars
    \/ HandleSubmit /\ UNCHANGED v1Vars
    \/ \E r \in BagToSet(inflight) : ServerOk(r) /\ UNCHANGED v1Vars
    \/ \E r \in BagToSet(inflight) : Fail(r) /\ UNCHANGED v1Vars
    \/ \E r \in BagToSet(inflight) : DeliverFetchChats(r) /\ UNCHANGED v1Vars
    \/ \E r \in BagToSet(inflight) : DeliverFetchMessages(r) /\ UNCHANGED v1Vars
    \/ \E r \in BagToSet(inflight) : DeliverDeleteChat(r) /\ UNCHANGED v1Vars
    \/ \E r \in BagToSet(inflight) : DeliverSendMessage(r) /\ UNCHANGED v1Vars

\* the network call settles, and the event loop runs the continuation
SpecLive == Init /\ [][NextLive]_vars /\ WF_vars(SendSettles) /\ WF_vars(SendContinues)

\* C22: isLoading is true exactly while the onSendMessage promise of an
\* accepted submit is pending (its webhook call is in flight or answered and
\* not yet continued), and whenever it is true it eventually becomes false.
C22_LoadingEnds ==
    /\ [](isLoading <=> NKind(inflight, "sendMessage") = 1)
    /\ (isLoading ~> ~isLoading)

C22_Witness ==
    /\ ~isLoading
    /\ now = 3
    /\ failedSends # {}
    /\ Quiescent
    /\ \E i \in 1..Len(messages) : messages[i].role = "bot"
====
